---------------------------- MODULE Spec2Model ----------------------------
(***************************************************************************)
(* A model of cliopatra's program invocation model (pkg/program.go) and of *)
(* the render command (cmd/cliopatra/cmds/render.go).                      *)
(*                                                                         *)
(* Four components and their specifications:                               *)
(*   SpecArgs    Program.ComputeArgs, one step per loop iteration          *)
(*   SpecClone   Program.Clone and the setters, on a heap with aliasing    *)
(*   SpecAlias   the same, with element writes through exported fields     *)
(*   SpecLoad    LoadRepositories / LoadProgramsFromFS                     *)
(*   SpecRender  the Run handler of NewRenderCommand, watch mode included  *)
(***************************************************************************)
EXTENDS Integers, Sequences, FiniteSets, TLC

VARIABLES
    \* ---- ComputeArgs ----
    caProgram,   \* the receiver p: Verbs, RawFlags, Flags, Args
    caPs,        \* the runtime map ps (a function on the names it holds)
    caArgs,      \* the local slice args
    caPc,        \* "idle" | "start" | "flags" | "args" | "done" | "failed"
    caIdx,       \* the index of the range loop in progress
    caErr        \* the returned error: [kind |-> "flag" | "arg", name], or NoErr

caVars == <<caProgram, caPs, caArgs, caPc, caIdx, caErr>>

VARIABLES
    \* ---- Clone and the setters ----
    heap,        \* Go's heap: backing arrays, Parameter objects, maps
    progs,       \* the two Program structs: progs.orig and progs.clone
    cloned,      \* whether Clone() has returned progs.clone
    nOps,        \* the number of calls made so far
    lastOp,      \* the last call: [op, target]
    preAbs       \* the contents of both programs before the last call

clVars == <<heap, progs, cloned, nOps, lastOp, preAbs>>

VARIABLES
    \* ---- LoadRepositories ----
    fsys,          \* the file system: directory name -> its entries
    repositories,  \* the argument: the list of roots
    ldPc,          \* "idle" | "root" | "merge" | "done"
    ldIdx,         \* the index of the root being loaded
    ldQueue,       \* programs_ of the current root, still to be merged
    programs,      \* the accumulating registry
    ldErr,         \* "" | "stat" | "load" | "exists": the error returned
    ldReturned,    \* the registry returned, NoRegistry for nil
    decoded        \* every program a LoadProgramsFromFS call has returned

ldVars == <<fsys, repositories, ldPc, ldIdx, ldQueue, programs, ldErr,
            ldReturned, decoded>>

VARIABLES
    \* ---- the render command's Run ----
    rnIn,        \* what the parser hands over: ps and the settings
    rnPc,        \* the position in Run
    rnTouched,   \* the kinds of file-system access made so far
    rnRenders,   \* the RenderFile / RenderDirectory calls made, in order
    rnExit,      \* "" while running, then "ok" | "fatal" | "panic"
    rnFatal,     \* which cobra.CheckErr ended the run, "" if none
    rnOutDir,    \* settings.OutputDirectory
    rnFileIdx,   \* the index of the batch loop over files_
    rnLog,       \* the callback's log: one [path, basePath, outputPath] per event
    rnWatchErr   \* what w.Run returned: "" | "nil" | "canceled" | "other"

rnVars == <<rnIn, rnPc, rnTouched, rnRenders, rnExit, rnFatal, rnOutDir,
            rnFileIdx, rnLog, rnWatchErr>>

vars == <<caVars, clVars, ldVars, rnVars>>

\* What a step of one component leaves alone.
notCa == <<clVars, ldVars, rnVars>>
notCl == <<caVars, ldVars, rnVars>>
notLd == <<caVars, clVars, rnVars>>
notRn == <<caVars, clVars, ldVars>>

(***************************************************************************)
(* Go interface{} values as the YAML decoder or a caller may supply them.  *)
(* Every field is always present so that any two values can be compared.   *)
(***************************************************************************)
StrV(x) == [k |-> "string", s |-> x, n |-> 0, b |-> FALSE, l |-> <<>>]
IntV(x) == [k |-> "int", s |-> "", n |-> x, b |-> FALSE, l |-> <<>>]
BoolV(x) == [k |-> "bool", s |-> "", n |-> 0, b |-> x, l |-> <<>>]
ListV(x) == [k |-> "list", s |-> "", n |-> 0, b |-> FALSE, l |-> x]
NilV == [k |-> "nil", s |-> "", n |-> 0, b |-> FALSE, l |-> <<>>]

Digit == <<"0", "1", "2", "3", "4", "5", "6", "7", "8", "9">>

RECURSIVE NatToStr(_)
NatToStr(x) == IF x < 10 THEN Digit[x + 1]
               ELSE NatToStr(x \div 10) \o Digit[(x % 10) + 1]

\* fmt.Sprintf("%d", x)
IntToStr(x) == IF x < 0 THEN "-" \o NatToStr(0 - x) ELSE NatToStr(x)

\* strings.Join(l, ",")
RECURSIVE JoinComma(_)
JoinComma(l) == IF Len(l) = 0 THEN ""
                ELSE IF Len(l) = 1 THEN l[1]
                ELSE l[1] \o "," \o JoinComma(Tail(l))

(***************************************************************************)
(* parameters.RenderValue(type, value): the type-directed formatter.  A    *)
(* value of the wrong dynamic type for the declared type, or an unknown    *)
(* type, is a rendering error.                                             *)
(***************************************************************************)
RenderValue(type, value) ==
    CASE type = "string" /\ value.k = "string" -> [err |-> FALSE, s |-> value.s]
      [] type = "int" /\ value.k = "int" -> [err |-> FALSE, s |-> IntToStr(value.n)]
      [] type = "bool" /\ value.k = "bool" ->
            [err |-> FALSE, s |-> IF value.b THEN "true" ELSE "false"]
      [] type = "stringList" /\ value.k = "list" ->
            [err |-> FALSE, s |-> JoinComma(value.l)]
      [] OTHER -> [err |-> TRUE, s |-> ""]

NoErr == [kind |-> "", name |-> ""]

Param(name, flag, type, value, raw, noValue) ==
    [Name |-> name, Flag |-> flag, Type |-> type, Value |-> value,
     Raw |-> raw, NoValue |-> noValue]

\* flag_ := flag.Flag; if flag_ == "" { flag_ = "--" + flag.Name }
FlagToken(flag) == IF flag.Flag = "" THEN "--" \o flag.Name ELSE flag.Flag

\* A resolution that lets Raw win over the runtime map.
ResolveFlagValueRawFirst(flag, ps) ==
    IF flag.Raw # "" THEN [err |-> FALSE, s |-> flag.Raw]
    ELSE IF flag.Name \in DOMAIN ps /\ ~RenderValue(flag.Type, ps[flag.Name]).err
              /\ RenderValue(flag.Type, ps[flag.Name]).s # ""
         THEN RenderValue(flag.Type, ps[flag.Name])
         ELSE RenderValue(flag.Type, flag.Value)

(***************************************************************************)
(* The value resolution of one flag: [err, s].                             *)
(***************************************************************************)
ResolveFlagValue(flag, ps) ==
    LET ok == flag.Name \in DOMAIN ps
        first == IF ~ok THEN [err |-> FALSE, s |-> flag.Raw]
                 ELSE RenderValue(flag.Type, ps[flag.Name])
    IN  IF first.err THEN first
        ELSE IF first.s = "" THEN RenderValue(flag.Type, flag.Value)
        ELSE first

\* The same for one positional argument (the args loop repeats the code).
ResolveArgValue(arg, ps) ==
    LET ok == arg.Name \in DOMAIN ps
        first == IF ~ok THEN [err |-> FALSE, s |-> arg.Raw]
                 ELSE RenderValue(arg.Type, ps[arg.Name])
    IN  IF first.err THEN first
        ELSE IF first.s = "" THEN RenderValue(arg.Type, arg.Value)
        ELSE first

\* A prefix that puts the raw flags before the verbs.
ArgsPrefixRawFirst(prog) == prog.RawFlags \o prog.Verbs

\* args = append(args, p.Verbs...); args = append(args, p.RawFlags...)
ArgsPrefix(prog) == prog.Verbs \o prog.RawFlags

\* A NoValue test that never skips the value.
SkipsValueNever(flag) == FALSE

\* if flag.NoValue { args = append(args, flag_); continue }
SkipsValue(flag) == flag.NoValue

(***************************************************************************)
(* Inputs of ComputeArgs.                                                  *)
(***************************************************************************)
MaxParams == 2

FlagSamples ==
    { Param("a", "", "string", StrV("x"), "", FALSE),
      Param("a", "-n", "int", IntV(15), "", FALSE),
      Param("b", "", "string", StrV("x"), "r", FALSE),
      Param("b", "", "string", StrV(""), "", FALSE),
      Param("b", "-n", "string", IntV(15), "r", FALSE),
      Param("a", "", "string", IntV(15), "r", TRUE),
      Param("b", "-q", "bool", BoolV(TRUE), "", TRUE),
      Param("a", "", "stringList", ListV(<<"p", "q">>), "", FALSE) }

\* Flag and NoValue are fields of every Parameter; the args loop ignores them.
ArgSamples ==
    { Param("a", "-z", "string", StrV("hi"), "", TRUE),
      Param("a", "", "int", IntV(15), "r", FALSE),
      Param("b", "", "string", IntV(15), "r", FALSE),
      Param("a", "", "string", StrV(""), "", FALSE) }

VerbSamples == {<<>>, <<"v">>, <<"v", "w">>}
RawFlagSamples == {<<>>, <<"--r">>, <<"--r", "s">>}

PsValues == {StrV("y"), StrV(""), IntV(7)}
PsSamples == UNION {[d -> PsValues] : d \in SUBSET {"a", "b"}}

SeqsUpTo(S, n) == UNION {[1..m -> S] : m \in 0..n}

CaInit ==
    /\ \E nf \in 0..MaxParams :
         \E fs \in [1..nf -> FlagSamples] :
           \E as \in SeqsUpTo(ArgSamples, MaxParams - nf) :
             \E vs \in VerbSamples, rs \in RawFlagSamples :
               caProgram = [Verbs |-> vs, RawFlags |-> rs, Flags |-> fs, Args |-> as]
    /\ caPs \in PsSamples
    /\ caArgs = <<>>
    /\ caPc = "start"
    /\ caIdx = 1
    /\ caErr = NoErr

\* args := []string{}; the two appends before the loops
CaStart ==
    /\ UNCHANGED notCa
    /\ caPc = "start"
    /\ caArgs' = ArgsPrefix(caProgram)
    /\ caPc' = "flags"
    /\ caIdx' = 1
    /\ UNCHANGED <<caProgram, caPs, caErr>>

\* One iteration of "for _, flag := range p.Flags".
CaFlag ==
    /\ UNCHANGED notCa
    /\ caPc = "flags"
    /\ caIdx <= Len(caProgram.Flags)
    /\ LET flag == caProgram.Flags[caIdx]
           r == ResolveFlagValue(flag, caPs)
       IN  \/ /\ SkipsValue(flag)
              /\ caArgs' = Append(caArgs, FlagToken(flag))
              /\ caIdx' = caIdx + 1
              /\ UNCHANGED <<caPc, caErr>>
           \/ /\ ~SkipsValue(flag)
              /\ r.err
              /\ caArgs' = <<>>
              /\ caPc' = "failed"
              /\ caErr' = [kind |-> "flag", name |-> flag.Name]
              /\ UNCHANGED caIdx
           \/ /\ ~SkipsValue(flag)
              /\ ~r.err
              /\ caArgs' = caArgs \o <<FlagToken(flag), r.s>>
              /\ caIdx' = caIdx + 1
              /\ UNCHANGED <<caPc, caErr>>
    /\ UNCHANGED <<caProgram, caPs>>

CaFlagsDone ==
    /\ UNCHANGED notCa
    /\ caPc = "flags"
    /\ caIdx > Len(caProgram.Flags)
    /\ caPc' = "args"
    /\ caIdx' = 1
    /\ UNCHANGED <<caProgram, caPs, caArgs, caErr>>

\* One iteration of "for _, arg := range p.Args".
CaArg ==
    /\ UNCHANGED notCa
    /\ caPc = "args"
    /\ caIdx <= Len(caProgram.Args)
    /\ LET arg == caProgram.Args[caIdx]
           r == ResolveArgValue(arg, caPs)
       IN  \/ /\ r.err
              /\ caArgs' = <<>>
              /\ caPc' = "failed"
              /\ caErr' = [kind |-> "arg", name |-> arg.Name]
              /\ UNCHANGED caIdx
           \/ /\ ~r.err
              /\ caArgs' = Append(caArgs, r.s)
              /\ caIdx' = caIdx + 1
              /\ UNCHANGED <<caPc, caErr>>
    /\ UNCHANGED <<caProgram, caPs>>

\* return args, nil
CaReturn ==
    /\ UNCHANGED notCa
    /\ caPc = "args"
    /\ caIdx > Len(caProgram.Args)
    /\ caPc' = "done"
    /\ UNCHANGED <<caProgram, caPs, caArgs, caIdx, caErr>>

CaNext == CaStart \/ CaFlag \/ CaFlagsDone \/ CaArg \/ CaReturn

CaIdle ==
    /\ caProgram = [Verbs |-> <<>>, RawFlags |-> <<>>, Flags |-> <<>>, Args |-> <<>>]
    /\ caPs = <<>>
    /\ caArgs = <<>>
    /\ caPc = "idle"
    /\ caIdx = 1
    /\ caErr = NoErr


(***************************************************************************)
(* Program.Clone, Parameter.Clone and the setters, on a heap.              *)
(*                                                                         *)
(* heap.str   the backing arrays of []string slices (length = capacity)    *)
(* heap.ptr   the backing arrays of []*Parameter slices                    *)
(* heap.par   the Parameter objects; a *Parameter is an index              *)
(* heap.map   the map objects, each a set of <<key, value>> pairs          *)
(* A slice is a header [arr, len]; arr = 0 is the nil slice.  A map field  *)
(* is an index into heap.map; 0 is the nil map.                            *)
(***************************************************************************)
NilSlice == [arr |-> 0, len |-> 0]

\* interface{} values held by Parameter.Value: a string, or a []string header
StrI(x) == [k |-> "string", s |-> x, arr |-> 0, len |-> 0]
ListI(a, n) == [k |-> "list", s |-> "", arr |-> a, len |-> n]

Cap(h, hdr) == IF hdr.arr = 0 THEN 0 ELSE Len(h.str[hdr.arr])

\* The elements a slice header shows.
Contents(h, hdr) == IF hdr.len = 0 THEN <<>> ELSE SubSeq(h.str[hdr.arr], 1, hdr.len)

Blank(n) == [j \in 1..n |-> ""]

\* make([]string, n): a fresh zeroed array, and the header on it
MakeStr(h, n) ==
    [h |-> [h EXCEPT !.str = Append(h.str, Blank(n))],
     hdr |-> [arr |-> Len(h.str) + 1, len |-> n]]

\* append(s, xs...): in place when the capacity allows, else a grown copy
\* (the runtime doubles a small capacity, or takes the needed length when
\* that is more).
AppendStr(h, hdr, xs) ==
    LET n == hdr.len + Len(xs)
        c == Cap(h, hdr)
        newcap == IF n > 2 * c THEN n ELSE 2 * c
    IN  IF Len(xs) = 0 THEN [h |-> h, hdr |-> hdr]
        ELSE IF n <= c
        THEN [h |-> [h EXCEPT !.str[hdr.arr] =
                        [j \in 1..c |-> IF j > hdr.len /\ j <= n
                                        THEN xs[j - hdr.len] ELSE @[j]]],
              hdr |-> [arr |-> hdr.arr, len |-> n]]
        ELSE [h |-> [h EXCEPT !.str = Append(h.str,
                        Contents(h, hdr) \o xs \o Blank(newcap - n))],
              hdr |-> [arr |-> Len(h.str) + 1, len |-> n]]

\* A Parameter.Clone that hands back its receiver.
ParameterCloneSamePointer(h, ptr) == [h |-> h, ptr |-> ptr]

\* func (p *Parameter) Clone() *Parameter: a new object, every field copied
\* (Value is copied as the interface value it is).
ParameterClone(h, ptr) ==
    [h |-> [h EXCEPT !.par = Append(h.par,
                [Name |-> h.par[ptr].Name, Flag |-> h.par[ptr].Flag,
                 Short |-> h.par[ptr].Short, Type |-> h.par[ptr].Type,
                 Value |-> h.par[ptr].Value, Raw |-> h.par[ptr].Raw,
                 NoValue |-> h.par[ptr].NoValue])],
     ptr |-> Len(h.par) + 1]

\* clone.Flags = make([]*Parameter, len(p.Flags)); for i, f := range p.Flags
\* { clone.Flags[i] = f.Clone() }     [h, ptrs]: the heap and the new array
RECURSIVE CloneParams(_, _, _)
CloneParams(h, hdr, i) ==
    IF i > hdr.len THEN [h |-> h, ptrs |-> <<>>]
    ELSE LET c == ParameterClone(h, h.ptr[hdr.arr][i])
             rest == CloneParams(c.h, hdr, i + 1)
         IN  [h |-> rest.h, ptrs |-> <<c.ptr>> \o rest.ptrs]

\* clone.Env = make(map[string]string, len(p.Env)); for k, v := range p.Env
\* { clone.Env[k] = v }     (ranging over the nil map copies nothing)
CloneMap(h, ref) ==
    [h |-> [h EXCEPT !.map = Append(h.map, IF ref = 0 THEN {} ELSE h.map[ref])],
     ref |-> Len(h.map) + 1]

\* func (p *Program) Clone() *Program
ProgramClone(h, p) ==
    LET r == MakeStr(h, p.RawFlags.len)
        h1 == [r.h EXCEPT !.str[r.hdr.arr] = Contents(h, p.RawFlags)]
        f == CloneParams(h1, p.Flags, 1)
        h2 == [f.h EXCEPT !.ptr = Append(f.h.ptr, f.ptrs)]
        fhdr == [arr |-> Len(h2.ptr), len |-> p.Flags.len]
        a == CloneParams(h2, p.Args, 1)
        h3 == [a.h EXCEPT !.ptr = Append(a.h.ptr, a.ptrs)]
        ahdr == [arr |-> Len(h3.ptr), len |-> p.Args.len]
        e == CloneMap(h3, p.Env)
        x == CloneMap(e.h, p.ExpectedFiles)
    IN  [h |-> x.h,
         prog |-> [p EXCEPT !.RawFlags = r.hdr, !.Flags = fhdr, !.Args = ahdr,
                            !.Env = e.ref, !.ExpectedFiles = x.ref]]

\* The index of the first parameter of the list named name, or 0.
FindParam(h, hdr, name) ==
    LET hits == {i \in 1..hdr.len : h.par[h.ptr[hdr.arr][i]].Name = name}
    IN  IF hits = {} THEN 0
        ELSE CHOOSE i \in hits : \A j \in hits : i <= j

\* func (p *Program) SetFlagValue(name, value): [h, err]
SetFlagValue(h, p, name, value) ==
    LET i == FindParam(h, p.Flags, name)
    IN  IF i = 0 THEN [h |-> h, err |-> TRUE]
        ELSE [h |-> [h EXCEPT !.par[h.ptr[p.Flags.arr][i]].Value = value],
              err |-> FALSE]

\* func (p *Program) SetFlagRaw(name, raw)
SetFlagRaw(h, p, name, raw) ==
    LET i == FindParam(h, p.Flags, name)
    IN  IF i = 0 THEN [h |-> h, err |-> TRUE]
        ELSE [h |-> [h EXCEPT !.par[h.ptr[p.Flags.arr][i]].Raw = raw],
              err |-> FALSE]

\* func (p *Program) SetArgValue(name, value)
SetArgValue(h, p, name, value) ==
    LET i == FindParam(h, p.Args, name)
    IN  IF i = 0 THEN [h |-> h, err |-> TRUE]
        ELSE [h |-> [h EXCEPT !.par[h.ptr[p.Args.arr][i]].Value = value],
              err |-> FALSE]

\* func (p *Program) SetArgRaw(name, raw)
SetArgRaw(h, p, name, raw) ==
    LET i == FindParam(h, p.Args, name)
    IN  IF i = 0 THEN [h |-> h, err |-> TRUE]
        ELSE [h |-> [h EXCEPT !.par[h.ptr[p.Args.arr][i]].Raw = raw],
              err |-> FALSE]

\* func (p *Program) AddRawFlag(raw ...string): [h, prog]
AddRawFlag(h, p, raw) ==
    LET r == AppendStr(h, p.RawFlags, raw)
    IN  [h |-> r.h, prog |-> [p EXCEPT !.RawFlags = r.hdr]]

(***************************************************************************)
(* What a program holds, pointers and capacities left out: the value two   *)
(* structurally equal programs share.                                      *)
(***************************************************************************)
AbsValue(h, v) ==
    [k |-> v.k, s |-> v.s, l |-> Contents(h, [arr |-> v.arr, len |-> v.len])]

AbsParams(h, hdr) ==
    [i \in 1..hdr.len |->
        [h.par[h.ptr[hdr.arr][i]] EXCEPT !.Value = AbsValue(h, @)]]

Abs(h, p) ==
    [p EXCEPT !.Verbs = Contents(h, p.Verbs),
              !.RawFlags = Contents(h, p.RawFlags),
              !.Flags = AbsParams(h, p.Flags),
              !.Args = AbsParams(h, p.Args),
              !.Env = IF p.Env = 0 THEN {} ELSE h.map[p.Env],
              !.ExpectedFiles = IF p.ExpectedFiles = 0 THEN {}
                                ELSE h.map[p.ExpectedFiles]]

AbsBoth(h, ps) == [orig |-> Abs(h, ps.orig), clone |-> Abs(h, ps.clone)]

(***************************************************************************)
(* The programs the clone specifications start from, as a YAML decode      *)
(* leaves them: every slice on a backing array of its own, possibly with   *)
(* spare capacity, or nil when the key is absent.                          *)
(***************************************************************************)
MaxOps == 3

InitPar ==
    << [Name |-> "a", Flag |-> "", Short |-> "", Type |-> "string",
        Value |-> StrI("x"), Raw |-> "", NoValue |-> FALSE],
       [Name |-> "b", Flag |-> "-n", Short |-> "", Type |-> "stringList",
        Value |-> ListI(3, 2), Raw |-> "r", NoValue |-> FALSE],
       [Name |-> "c", Flag |-> "", Short |-> "", Type |-> "stringList",
        Value |-> ListI(4, 1), Raw |-> "", NoValue |-> FALSE] >>

InitHeap(rawBacking) ==
    [str |-> << <<"v", "w">>, rawBacking, <<"p", "q">>, <<"m">> >>,
     ptr |-> << <<1, 2>>, <<3>> >>,
     par |-> InitPar,
     map |-> << {<<"K", "1">>}, {<<"out.txt", "c">>} >>]

ProgramStruct(verbs, raw, flags, args, env, files) ==
    [Name |-> "echo", Path |-> "/bin/echo", Verbs |-> verbs,
     Description |-> "d", Env |-> env, RawFlags |-> raw, Flags |-> flags,
     Args |-> args, Stdin |-> "in", ExpectedStdout |-> "hi",
     ExpectedError |-> "", ExpectedStatusCode |-> 0, ExpectedFiles |-> files]

NilProgram == ProgramStruct(NilSlice, NilSlice, NilSlice, NilSlice, 0, 0)

SetterNames == {"a", "c"}
SetterRaws == {"z"}
AddedRawFlags == {<<"n">>}
Targets == {"orig", "clone"}

ClInit ==
    /\ \E rawBacking \in {<<"--r">>, <<"--r", "">>} :
         heap = InitHeap(rawBacking)
    /\ \E verbs \in {NilSlice, [arr |-> 1, len |-> 2]},
          raw \in {NilSlice, [arr |-> 2, len |-> 1]},
          full \in BOOLEAN :
         progs = [orig |-> IF full
                           THEN ProgramStruct(verbs, raw, [arr |-> 1, len |-> 2],
                                              [arr |-> 2, len |-> 1], 1, 2)
                           ELSE ProgramStruct(verbs, raw, NilSlice, NilSlice, 0, 0),
                  clone |-> NilProgram]
    /\ cloned = FALSE
    /\ nOps = 0
    /\ lastOp = [op |-> "none", target |-> "orig"]
    /\ preAbs = AbsBoth(heap, progs)

\* The bookkeeping every call shares.
Called(op, t) ==
    /\ UNCHANGED notCl
    /\ nOps < MaxOps
    /\ t = "clone" => cloned
    /\ nOps' = nOps + 1
    /\ lastOp' = [op |-> op, target |-> t]
    /\ preAbs' = AbsBoth(heap, progs)

\* clone := orig.Clone()
DoClone ==
    /\ ~cloned
    /\ Called("Clone", "orig")
    /\ LET r == ProgramClone(heap, progs.orig)
       IN  /\ heap' = r.h
           /\ progs' = [progs EXCEPT !.clone = r.prog]
    /\ cloned' = TRUE

\* The value a caller passes: a string, or a []string literal of its own.
DoSetFlagValue ==
    \E t \in Targets, name \in SetterNames, list \in BOOLEAN :
        /\ Called("SetFlagValue", t)
        /\ LET h0 == IF list THEN [heap EXCEPT !.str = Append(heap.str, <<"m">>)]
                     ELSE heap
               v == IF list THEN ListI(Len(h0.str), 1) ELSE StrI("y")
           IN  heap' = SetFlagValue(h0, progs[t], name, v).h
        /\ UNCHANGED <<progs, cloned>>

DoSetFlagRaw ==
    \E t \in Targets, name \in SetterNames, raw \in SetterRaws :
        /\ Called("SetFlagRaw", t)
        /\ heap' = SetFlagRaw(heap, progs[t], name, raw).h
        /\ UNCHANGED <<progs, cloned>>

DoSetArgValue ==
    \E t \in Targets, name \in SetterNames :
        /\ Called("SetArgValue", t)
        /\ heap' = SetArgValue(heap, progs[t], name, StrI("y")).h
        /\ UNCHANGED <<progs, cloned>>

DoSetArgRaw ==
    \E t \in Targets, name \in SetterNames, raw \in SetterRaws :
        /\ Called("SetArgRaw", t)
        /\ heap' = SetArgRaw(heap, progs[t], name, raw).h
        /\ UNCHANGED <<progs, cloned>>

DoAddRawFlag ==
    \E t \in Targets, raw \in AddedRawFlags :
        /\ Called("AddRawFlag", t)
        /\ LET r == AddRawFlag(heap, progs[t], raw)
           IN  /\ heap' = r.h
               /\ progs' = [progs EXCEPT ![t] = r.prog]
        /\ UNCHANGED cloned

ClNext ==
    \/ DoClone
    \/ DoSetFlagValue
    \/ DoSetFlagRaw
    \/ DoSetArgValue
    \/ DoSetArgRaw
    \/ DoAddRawFlag

(***************************************************************************)
(* In-place element writes a holder of a *Program can make: p.Verbs[i] =   *)
(* x, p.RawFlags[i] = x, p.Flags[j].Value.([]string)[i] = x, p.Env[k] = v, *)
(* p.Flags[j] = &Parameter{...}.  They are no methods of Program; the      *)
(* aliasing specification adds them to the calls above.                    *)
(***************************************************************************)
WrittenStrings == {"X"}

DoWriteSlice ==
    \E t \in Targets, field \in {"Verbs", "RawFlags"}, i \in 1..2, x \in WrittenStrings :
        /\ Called("WriteSlice", t)
        /\ i <= progs[t][field].len
        /\ heap' = [heap EXCEPT !.str[progs[t][field].arr][i] = x]
        /\ UNCHANGED <<progs, cloned>>

DoWriteValueElem ==
    \E t \in Targets, field \in {"Flags", "Args"}, j \in 1..2, i \in 1..2,
       x \in WrittenStrings :
        /\ Called("WriteValueElem", t)
        /\ j <= progs[t][field].len
        /\ LET v == heap.par[heap.ptr[progs[t][field].arr][j]].Value
           IN  /\ v.k = "list"
               /\ i <= v.len
               /\ heap' = [heap EXCEPT !.str[v.arr][i] = x]
        /\ UNCHANGED <<progs, cloned>>

DoWriteMap ==
    \E t \in Targets, field \in {"Env", "ExpectedFiles"}, x \in WrittenStrings :
        /\ Called("WriteMap", t)
        /\ progs[t][field] # 0
        /\ heap' = [heap EXCEPT !.map[progs[t][field]] =
                       {kv \in @ : kv[1] # "K"} \cup {<<"K", x>>}]
        /\ UNCHANGED <<progs, cloned>>

DoWriteParamSlot ==
    \E t \in Targets, field \in {"Flags", "Args"}, j \in 1..2 :
        /\ Called("WriteParamSlot", t)
        /\ j <= progs[t][field].len
        /\ heap' = [heap EXCEPT
                       !.par = Append(@, [Name |-> "new", Flag |-> "", Short |-> "",
                                          Type |-> "string", Value |-> StrI("x"),
                                          Raw |-> "", NoValue |-> FALSE]),
                       !.ptr[progs[t][field].arr][j] = Len(heap.par) + 1]
        /\ UNCHANGED <<progs, cloned>>

AliasNext ==
    \/ DoClone
    \/ DoSetFlagValue
    \/ DoSetFlagRaw
    \/ DoSetArgValue
    \/ DoSetArgRaw
    \/ DoAddRawFlag
    \/ DoWriteSlice
    \/ DoWriteValueElem
    \/ DoWriteMap
    \/ DoWriteParamSlot

ClIdle ==
    /\ heap = InitHeap(<<>>)
    /\ progs = [orig |-> NilProgram, clone |-> NilProgram]
    /\ cloned = FALSE
    /\ nOps = 0
    /\ lastOp = [op |-> "none", target |-> "orig"]
    /\ preAbs = AbsBoth(heap, progs)

(***************************************************************************)
(* LoadProgramsFromFS and LoadRepositories.                                *)
(*                                                                         *)
(* A directory entry is [name, isDir, child, prog, fault]: name is a       *)
(* sequence of characters; a directory entry names its child directory; a  *)
(* file entry carries the program name its YAML decodes to, or a fault     *)
(* ("open": it cannot be opened, "decode": it does not decode).            *)
(***************************************************************************)
HasPrefix(str, prefix) ==
    Len(prefix) <= Len(str) /\ SubSeq(str, 1, Len(prefix)) = prefix

HasSuffix(str, suffix) ==
    Len(suffix) <= Len(str)
        /\ SubSeq(str, Len(str) - Len(suffix) + 1, Len(str)) = suffix

DotYaml == <<".", "y", "a", "m", "l">>
DotYml == <<".", "y", "m", "l">>

File(name, prog, fault) ==
    [name |-> name, isDir |-> FALSE, child |-> "", prog |-> prog, fault |-> fault]
Dir(name, child) ==
    [name |-> name, isDir |-> TRUE, child |-> child, prog |-> "", fault |-> "none"]

\* A program as NewProgramFromYAML returns it: its Name, and the file it
\* was decoded from (with the root the walk started at), which tells two
\* decoded objects apart.
Decoded(root, dir, entry) ==
    [Name |-> entry.prog, root |-> root, dir |-> dir, file |-> entry.name]

Perms(S) ==
    {f \in [1..Cardinality(S) -> S] : \A i, j \in 1..Cardinality(S) : f[i] = f[j] => i = j}

\* LoadProgramsFromFS(f, dir): the set of results [err, programs] it can
\* return, one for each order fs.ReadDir can list the entries in.
RECURSIVE WalkDir(_, _, _)
RECURSIVE WalkEntries(_, _, _, _)
WalkEntries(fs, root, dir, entries) ==
    IF Len(entries) = 0 THEN {[err |-> FALSE, programs |-> <<>>]}
    ELSE LET entry == entries[1]
             heads ==
                 IF HasPrefix(entry.name, <<".">>)
                 THEN {[err |-> FALSE, programs |-> <<>>]}
                 ELSE IF entry.isDir
                 THEN WalkDir(fs, root, entry.child)
                 ELSE IF HasSuffix(entry.name, DotYaml) \/ HasSuffix(entry.name, DotYml)
                 THEN IF entry.fault # "none"
                      THEN {[err |-> TRUE, programs |-> <<>>]}
                      ELSE {[err |-> FALSE, programs |-> <<Decoded(root, dir, entry)>>]}
                 ELSE {[err |-> FALSE, programs |-> <<>>]}
         IN  UNION {
                 IF h.err THEN {[err |-> TRUE, programs |-> <<>>]}
                 ELSE { IF r.err THEN r
                        ELSE [err |-> FALSE, programs |-> h.programs \o r.programs]
                        : r \in WalkEntries(fs, root, dir, Tail(entries)) }
                 : h \in heads }

WalkDir(fs, root, dir) ==
    IF dir \notin DOMAIN fs THEN {[err |-> TRUE, programs |-> <<>>]}
    ELSE UNION {WalkEntries(fs, root, dir, order) : order \in Perms(fs[dir])}

\* A merge that never sees a collision (the later program wins).
CollidesNever(registry, program) == FALSE

\* if _, ok := programs[program.Name]; ok
Collides(registry, program) == \E q \in registry : q.Name = program.Name

\* programs[program.Name] = program
Insert(registry, program) ==
    {q \in registry : q.Name # program.Name} \cup {program}

NoRegistry == {[Name |-> "", root |-> 0, dir |-> "nil", file |-> <<>>]}

(***************************************************************************)
(* The file systems and root lists the loader is run on.                   *)
(***************************************************************************)
MaxRoots == 2

FooYaml == File(<<"a">> \o DotYaml, "foo", "none")
FooYml == File(<<"b">> \o DotYml, "foo", "none")
BarYaml == File(<<"c">> \o DotYaml, "bar", "none")
HiddenYaml == File(<<".", "h">> \o DotYaml, "bar", "none")
NotesTxt == File(<<"n", ".", "t", "x", "t">>, "bar", "none")
BadYaml == File(<<"x">> \o DotYaml, "", "decode")
LockedYml == File(<<"l">> \o DotYml, "", "open")

SubDir == Dir(<<"s", "u", "b">>, "r1/sub")
GitDir == Dir(<<".", "g", "i", "t">>, "r1/.git")

R1Samples ==
    { {SubDir, GitDir},
      {SubDir, GitDir, FooYaml},
      {SubDir, GitDir, FooYaml, FooYml},
      {SubDir, GitDir, BarYaml, HiddenYaml, NotesTxt},
      {SubDir, GitDir, FooYaml, BadYaml} }
SubSamples == { {}, {FooYaml}, {BarYaml}, {LockedYml} }
R2Samples == { {FooYml}, {BarYaml, NotesTxt}, {} }

RootNames == {"r1", "r2", "r1/sub", "missing"}

LdInit ==
    /\ \E r1 \in R1Samples, sub \in SubSamples, r2 \in R2Samples :
         fsys = [d \in {"r1", "r1/sub", "r1/.git", "r2"} |->
                    CASE d = "r1" -> r1
                      [] d = "r1/sub" -> sub
                      [] d = "r1/.git" -> {FooYaml}
                      [] OTHER -> r2]
    /\ repositories \in SeqsUpTo(RootNames, MaxRoots)
    /\ ldPc = "root"
    /\ ldIdx = 1
    /\ ldQueue = <<>>
    /\ programs = {}
    /\ ldErr = ""
    /\ ldReturned = NoRegistry
    /\ decoded = <<>>

\* _, err := os.Stat(repository); if err != nil { return nil, ... }
LdStatFail ==
    /\ UNCHANGED notLd
    /\ ldPc = "root"
    /\ ldIdx <= Len(repositories)
    /\ repositories[ldIdx] \notin DOMAIN fsys
    /\ ldPc' = "done"
    /\ ldErr' = "stat"
    /\ ldReturned' = NoRegistry
    /\ UNCHANGED <<fsys, repositories, ldIdx, ldQueue, programs, decoded>>

\* programs_, err := LoadProgramsFromFS(os.DirFS(repository), ".")
LdWalk ==
    /\ UNCHANGED notLd
    /\ ldPc = "root"
    /\ ldIdx <= Len(repositories)
    /\ repositories[ldIdx] \in DOMAIN fsys
    /\ \E r \in WalkDir(fsys, ldIdx, repositories[ldIdx]) :
         \/ /\ r.err
            /\ ldPc' = "done"
            /\ ldErr' = "load"
            /\ ldReturned' = NoRegistry
            /\ UNCHANGED <<ldQueue, decoded>>
         \/ /\ ~r.err
            /\ ldPc' = "merge"
            /\ ldQueue' = r.programs
            /\ decoded' = decoded \o r.programs
            /\ UNCHANGED <<ldErr, ldReturned>>
    /\ UNCHANGED <<fsys, repositories, ldIdx, programs>>

\* One iteration of "for _, program := range programs_".
LdMerge ==
    /\ UNCHANGED notLd
    /\ ldPc = "merge"
    /\ Len(ldQueue) > 0
    /\ \/ /\ Collides(programs, ldQueue[1])
          /\ ldPc' = "done"
          /\ ldErr' = "exists"
          /\ ldReturned' = NoRegistry
          /\ UNCHANGED <<programs, ldQueue>>
       \/ /\ ~Collides(programs, ldQueue[1])
          /\ programs' = Insert(programs, ldQueue[1])
          /\ ldQueue' = Tail(ldQueue)
          /\ UNCHANGED <<ldPc, ldErr, ldReturned>>
    /\ UNCHANGED <<fsys, repositories, ldIdx, decoded>>

\* The end of the inner loop: on to the next repository.
LdNextRoot ==
    /\ UNCHANGED notLd
    /\ ldPc = "merge"
    /\ Len(ldQueue) = 0
    /\ ldPc' = "root"
    /\ ldIdx' = ldIdx + 1
    /\ UNCHANGED <<fsys, repositories, ldQueue, programs, ldErr, ldReturned, decoded>>

\* return programs, nil
LdReturn ==
    /\ UNCHANGED notLd
    /\ ldPc = "root"
    /\ ldIdx > Len(repositories)
    /\ ldPc' = "done"
    /\ ldReturned' = programs
    /\ UNCHANGED <<fsys, repositories, ldIdx, ldQueue, programs, ldErr, decoded>>

LdNext == LdStatFail \/ LdWalk \/ LdMerge \/ LdNextRoot \/ LdReturn

LdIdle ==
    /\ fsys = [d \in {"r1"} |-> {}]
    /\ repositories = <<>>
    /\ ldPc = "idle"
    /\ ldIdx = 1
    /\ ldQueue = <<>>
    /\ programs = {}
    /\ ldErr = ""
    /\ ldReturned = NoRegistry
    /\ decoded = <<>>

(***************************************************************************)
(* Paths are sequences of characters.  strings.TrimPrefix, and             *)
(* path/filepath's Clean, Join and Base (Unix separators).                 *)
(***************************************************************************)
TrimPrefix(str, prefix) ==
    IF HasPrefix(str, prefix) THEN SubSeq(str, Len(prefix) + 1, Len(str)) ELSE str

\* The elements between the separators of a path.
RECURSIVE SplitSlash(_)
SplitSlash(path) ==
    IF \A i \in 1..Len(path) : path[i] # "/" THEN <<path>>
    ELSE LET k == CHOOSE i \in 1..Len(path) :
                      path[i] = "/" /\ \A j \in 1..(i - 1) : path[j] # "/"
         IN  <<SubSeq(path, 1, k - 1)>> \o SplitSlash(SubSeq(path, k + 1, Len(path)))

RECURSIVE JoinSlash(_)
JoinSlash(elems) ==
    IF Len(elems) = 0 THEN <<>>
    ELSE IF Len(elems) = 1 THEN elems[1]
    ELSE elems[1] \o <<"/">> \o JoinSlash(Tail(elems))

\* Clean's pass over the elements: empty and "." elements go, ".." takes
\* the element before it away (or goes itself at the root, or stays at the
\* front of a relative path).
RECURSIVE CleanElems(_, _, _)
CleanElems(elems, out, rooted) ==
    IF Len(elems) = 0 THEN out
    ELSE LET e == elems[1]
             next == IF e = <<>> \/ e = <<".">> THEN out
                     ELSE IF e = <<".", ".">>
                     THEN IF Len(out) > 0 /\ out[Len(out)] # <<".", ".">>
                          THEN SubSeq(out, 1, Len(out) - 1)
                          ELSE IF rooted THEN out ELSE Append(out, e)
                     ELSE Append(out, e)
         IN  CleanElems(Tail(elems), next, rooted)

\* filepath.Clean
Clean(path) ==
    IF Len(path) = 0 THEN <<".">>
    ELSE LET rooted == path[1] = "/"
             body == JoinSlash(CleanElems(SplitSlash(path), <<>>, rooted))
         IN  IF rooted THEN <<"/">> \o body
             ELSE IF Len(body) = 0 THEN <<".">> ELSE body

\* filepath.Join(a, b): the empty elements are dropped, the rest joined by
\* the separator and cleaned; "" when nothing is left.
Join(a, b) ==
    LET elems == SelectSeq(<<a, b>>, LAMBDA e : Len(e) > 0)
    IN  IF Len(elems) = 0 THEN <<>> ELSE Clean(JoinSlash(elems))

\* filepath.Base
RECURSIVE StripTrailingSlashes(_)
StripTrailingSlashes(path) ==
    IF Len(path) > 0 /\ path[Len(path)] = "/"
    THEN StripTrailingSlashes(SubSeq(path, 1, Len(path) - 1))
    ELSE path

Base(path) ==
    IF Len(path) = 0 THEN <<".">>
    ELSE LET p == StripTrailingSlashes(path)
             elems == SplitSlash(p)
         IN  IF Len(p) = 0 THEN <<"/">> ELSE elems[Len(elems)]

(***************************************************************************)
(* The watcher callback's path mapping.                                    *)
(***************************************************************************)
\* A base path search without the break: the last matching root wins.
RECURSIVE BasePathLastMatch(_, _)
BasePathLastMatch(path, files) ==
    IF Len(files) = 0 THEN path
    ELSE IF HasPrefix(path, files[Len(files)]) THEN files[Len(files)]
    ELSE BasePathLastMatch(path, SubSeq(files, 1, Len(files) - 1))

\* basePath := path; for _, file := range files_ { if strings.HasPrefix(path,
\* file) { basePath = file; break } }
RECURSIVE BasePath(_, _)
BasePath(path, files) ==
    IF Len(files) = 0 THEN path
    ELSE IF HasPrefix(path, files[1]) THEN files[1]
    ELSE BasePath(path, Tail(files))

\* outputPath := filepath.Join(outputDirectory, strings.TrimPrefix(path, basePath))
OutputPath(outputDirectory, path, basePath) ==
    Join(outputDirectory, TrimPrefix(path, basePath))

(***************************************************************************)
(* The Run handler of the render command.                                  *)
(*                                                                         *)
(* rnIn.repository  [present, list]: ps["repository"]                      *)
(* rnIn.files       [kind, list]: ps["files"]; kind "absent", "other" (not *)
(*                  a []string) or "list"                                  *)
(* rnIn.delims      [isNil, len]: settings.Delimiters                      *)
(* rnIn.watch       settings.Watch                                         *)
(* rnIn.outDir      [kind, s]: ps["output-directory"]; kind as for files,  *)
(*                  "string" when it is one                                *)
(* rnIn.outputFile  settings.OutputFile                                    *)
(***************************************************************************)
MaxWatchRoots == 2
MaxEvents == 2

RootPathSamples == { <<"a">>, <<"a", "/", "b">>, <<"c", "/">> }

EventPathSamples ==
    { <<"a", "/", "b", "/", "c">>, <<"a", "/", "x">>, <<"a", "b">>,
      <<"c", "/", "x">>, <<"d">>, <<"a">> }

OutDirSamples == { <<>>, <<"o">>, <<"o", "/">>, <<".">> }

RnInit ==
    /\ \E repository \in {[present |-> FALSE, list |-> <<>>],
                          [present |-> TRUE, list |-> <<>>],
                          [present |-> TRUE, list |-> <<"repo">>]},
          files \in {[kind |-> "absent", list |-> <<>>],
                     [kind |-> "other", list |-> <<>>]}
                    \cup {[kind |-> "list", list |-> l] :
                            l \in SeqsUpTo(RootPathSamples, MaxWatchRoots)},
          delims \in {[isNil |-> TRUE, len |-> 0]}
                     \cup {[isNil |-> FALSE, len |-> n] : n \in 1..3},
          watch \in BOOLEAN,
          outDir \in {[kind |-> "absent", s |-> <<>>]}
                     \cup {[kind |-> "string", s |-> d] : d \in OutDirSamples},
          outputFile \in {<<>>, <<"f">>} :
         rnIn = [repository |-> repository, files |-> files, delims |-> delims,
                 watch |-> watch, outDir |-> outDir, outputFile |-> outputFile]
    /\ rnPc = "parse"
    /\ rnTouched = {}
    /\ rnRenders = <<>>
    /\ rnExit = ""
    /\ rnFatal = ""
    /\ rnOutDir = rnIn.outDir.s
    /\ rnFileIdx = 1
    /\ rnLog = <<>>
    /\ rnWatchErr = ""

\* cobra.CheckErr(err) with a non-nil err: the message is printed and the
\* process exits with status 1.
CheckErrExits(why) ==
    /\ rnPc' = "exit"
    /\ rnExit' = "fatal"
    /\ rnFatal' = why

\* parsedLayers, ps, err := cobraParser.Parse(args) ... InitializeStructFromParameters
RnParse ==
    /\ UNCHANGED notRn
    /\ rnPc = "parse"
    /\ \/ CheckErrExits("parse")
       \/ /\ rnPc' = "load"
          /\ UNCHANGED <<rnExit, rnFatal>>
    /\ UNCHANGED <<rnIn, rnTouched, rnRenders, rnOutDir, rnFileIdx, rnLog,
                   rnWatchErr>>

\* repositories := ps["repository"]; programs := pkg.LoadRepositories(
\* repositories.([]string)): every listed repository is stat'ed and walked,
\* its definition files opened and decoded.  No error of the load is
\* checked here.
RnLoad ==
    /\ UNCHANGED notRn
    /\ rnPc = "load"
    /\ \/ /\ ~rnIn.repository.present
          /\ rnPc' = "exit"
          /\ rnExit' = "panic"
          /\ rnFatal' = "repository is not a []string"
          /\ UNCHANGED rnTouched
       \/ /\ rnIn.repository.present
          /\ rnTouched' = rnTouched \cup
                (IF Len(rnIn.repository.list) > 0 THEN {"repository"} ELSE {})
          /\ rnPc' = "files"
          /\ UNCHANGED <<rnExit, rnFatal>>
    /\ UNCHANGED <<rnIn, rnRenders, rnOutDir, rnFileIdx, rnLog, rnWatchErr>>

\* files, ok := ps["files"]; files_, ok := files.([]string)
RnFiles ==
    /\ UNCHANGED notRn
    /\ rnPc = "files"
    /\ \/ /\ rnIn.files.kind = "absent"
          /\ CheckErrExits("files parameter not found")
       \/ /\ rnIn.files.kind = "other"
          /\ CheckErrExits("files parameter is not a string list")
       \/ /\ rnIn.files.kind = "list"
          /\ rnPc' = "delims"
          /\ UNCHANGED <<rnExit, rnFatal>>
    /\ UNCHANGED <<rnIn, rnTouched, rnRenders, rnOutDir, rnFileIdx, rnLog,
                   rnWatchErr>>

\* settings.Delimiters != nil && len(settings.Delimiters) != 2
DelimitersInvalid(delims) == ~delims.isNil /\ delims.len # 2

\* The watcher options, then the delimiter validation.
RnDelims ==
    /\ UNCHANGED notRn
    /\ rnPc = "delims"
    /\ \/ /\ DelimitersInvalid(rnIn.delims)
          /\ CheckErrExits("delimiters parameter must have 2 values")
       \/ /\ ~DelimitersInvalid(rnIn.delims)
          /\ rnPc' = "renderer"
          /\ UNCHANGED <<rnExit, rnFatal>>
    /\ UNCHANGED <<rnIn, rnTouched, rnRenders, rnOutDir, rnFileIdx, rnLog,
                   rnWatchErr>>

\* renderer := render.NewRenderer(options...); if settings.Watch
RnRenderer ==
    /\ UNCHANGED notRn
    /\ rnPc = "renderer"
    /\ rnPc' = IF rnIn.watch THEN "watchsetup" ELSE "batchsetup"
    /\ UNCHANGED <<rnIn, rnTouched, rnRenders, rnExit, rnFatal, rnOutDir,
                   rnFileIdx, rnLog, rnWatchErr>>

\* The output-directory checks, watcher.NewWatcher, eg.Go(w.Run).
RnWatchSetup ==
    /\ UNCHANGED notRn
    /\ rnPc = "watchsetup"
    /\ \/ /\ rnIn.outDir.kind = "absent"
          /\ CheckErrExits("output-directory parameter not found")
          /\ UNCHANGED rnTouched
       \/ /\ rnIn.outDir.kind = "string"
          /\ Len(rnIn.outDir.s) = 0
          /\ CheckErrExits("output-directory parameter is empty")
          /\ UNCHANGED rnTouched
       \/ /\ rnIn.outDir.kind = "string"
          /\ Len(rnIn.outDir.s) > 0
          /\ rnPc' = "watching"
          /\ rnTouched' = rnTouched \cup {"watcher"}
          /\ UNCHANGED <<rnExit, rnFatal>>
    /\ UNCHANGED <<rnIn, rnRenders, rnOutDir, rnFileIdx, rnLog, rnWatchErr>>

\* The callback handed to watcher.NewWatcher, run for one change event: it
\* computes basePath and outputPath, logs them and returns nil.
RnEvent ==
    /\ UNCHANGED notRn
    /\ rnPc = "watching"
    /\ Len(rnLog) < MaxEvents
    /\ \E path \in EventPathSamples :
         LET basePath == BasePath(path, rnIn.files.list)
         IN  rnLog' = Append(rnLog,
                        [path |-> path, basePath |-> basePath,
                         outputPath |-> OutputPath(rnIn.outDir.s, path, basePath)])
    /\ UNCHANGED <<rnIn, rnPc, rnTouched, rnRenders, rnExit, rnFatal, rnOutDir,
                   rnFileIdx, rnWatchErr>>

\* cobra.CheckErr(err) after eg.Wait(): any non-nil err exits.
WatchErrExits(err) == err # "nil"

\* err := eg.Wait(); the log line; cobra.CheckErr(err); runWatcher; return
RnWatchEnd ==
    /\ UNCHANGED notRn
    /\ rnPc = "watching"
    /\ \E err \in {"nil", "canceled", "other"} :
         /\ rnWatchErr' = err
         /\ \/ /\ WatchErrExits(err)
               /\ CheckErrExits("watcher")
            \/ /\ ~WatchErrExits(err)
               /\ rnPc' = "exit"
               /\ rnExit' = "ok"
               /\ UNCHANGED rnFatal
    /\ UNCHANGED <<rnIn, rnTouched, rnRenders, rnOutDir, rnFileIdx, rnLog>>

\* The output-file check and the trailing "/" of settings.OutputDirectory.
RnBatchSetup ==
    /\ UNCHANGED notRn
    /\ rnPc = "batchsetup"
    /\ \/ /\ Len(rnIn.outputFile) > 0 /\ Len(rnIn.files.list) > 1
          /\ CheckErrExits("output-file parameter can only be used with a single file")
          /\ UNCHANGED rnOutDir
       \/ /\ ~(Len(rnIn.outputFile) > 0 /\ Len(rnIn.files.list) > 1)
          /\ rnOutDir' = IF Len(rnOutDir) > 0 /\ ~HasSuffix(rnOutDir, <<"/">>)
                         THEN rnOutDir \o <<"/">> ELSE rnOutDir
          /\ rnPc' = "batch"
          /\ UNCHANGED <<rnExit, rnFatal>>
    /\ UNCHANGED <<rnIn, rnTouched, rnRenders, rnFileIdx, rnLog, rnWatchErr>>

\* renderer.RenderFile / renderer.RenderDirectory: the source is read; on
\* success the output is written.
Rendered(kind, src, out, ok) ==
    /\ rnTouched' = rnTouched \cup {"stat", "source"} \cup (IF ok THEN {"output"} ELSE {})
    /\ rnRenders' = Append(rnRenders, [kind |-> kind, src |-> src, out |-> out, ok |-> ok])
    /\ IF ok
       THEN /\ rnFileIdx' = rnFileIdx + 1
            /\ UNCHANGED <<rnPc, rnExit, rnFatal>>
       ELSE /\ CheckErrExits("render")
            /\ UNCHANGED rnFileIdx

\* One iteration of "for _, file := range files_".
RnBatchFile ==
    /\ UNCHANGED notRn
    /\ rnPc = "batch"
    /\ rnFileIdx <= Len(rnIn.files.list)
    /\ LET file == rnIn.files.list[rnFileIdx]
       IN  \/ /\ CheckErrExits("stat")
              /\ rnTouched' = rnTouched \cup {"stat"}
              /\ UNCHANGED <<rnRenders, rnFileIdx>>
           \/ /\ Len(rnOutDir) = 0
              /\ CheckErrExits("output-directory parameter is required when rendering a directory")
              /\ rnTouched' = rnTouched \cup {"stat"}
              /\ UNCHANGED <<rnRenders, rnFileIdx>>
           \/ /\ Len(rnOutDir) > 0
              /\ \E ok \in BOOLEAN : Rendered("directory", file, rnOutDir, ok)
           \/ /\ CheckErrExits("open")
              /\ rnTouched' = rnTouched \cup {"stat"}
              /\ UNCHANGED <<rnRenders, rnFileIdx>>
           \/ \E ok \in BOOLEAN :
                Rendered("file", file,
                         IF Len(rnIn.outputFile) > 0 THEN rnIn.outputFile
                         ELSE Join(rnOutDir, Base(file)),
                         ok)
    /\ UNCHANGED <<rnIn, rnOutDir, rnLog, rnWatchErr>>

\* The loop is over: Run returns.
RnBatchDone ==
    /\ UNCHANGED notRn
    /\ rnPc = "batch"
    /\ rnFileIdx > Len(rnIn.files.list)
    /\ rnPc' = "exit"
    /\ rnExit' = "ok"
    /\ UNCHANGED <<rnIn, rnTouched, rnRenders, rnFatal, rnOutDir, rnFileIdx,
                   rnLog, rnWatchErr>>

RnNext ==
    \/ RnParse
    \/ RnLoad
    \/ RnFiles
    \/ RnDelims
    \/ RnRenderer
    \/ RnWatchSetup
    \/ RnEvent
    \/ RnWatchEnd
    \/ RnBatchSetup
    \/ RnBatchFile
    \/ RnBatchDone

RnIdle ==
    /\ rnIn = [repository |-> [present |-> FALSE, list |-> <<>>],
               files |-> [kind |-> "absent", list |-> <<>>],
               delims |-> [isNil |-> TRUE, len |-> 0],
               watch |-> FALSE,
               outDir |-> [kind |-> "absent", s |-> <<>>],
               outputFile |-> <<>>]
    /\ rnPc = "idle"
    /\ rnTouched = {}
    /\ rnRenders = <<>>
    /\ rnExit = ""
    /\ rnFatal = ""
    /\ rnOutDir = <<>>
    /\ rnFileIdx = 1
    /\ rnLog = <<>>
    /\ rnWatchErr = ""

(***************************************************************************)
(* Properties of ComputeArgs.                                              *)
(***************************************************************************)
FlagWidth(flag) == IF flag.NoValue THEN 1 ELSE 2

RECURSIVE WidthOfFirst(_, _)
WidthOfFirst(flags, k) ==
    IF k = 0 THEN 0 ELSE WidthOfFirst(flags, k - 1) + FlagWidth(flags[k])

\* Where flag j's token and arg j's token stand in a successful result.
FlagTokenPos(prog, j) ==
    Len(prog.Verbs) + Len(prog.RawFlags) + WidthOfFirst(prog.Flags, j - 1) + 1
ArgPos(prog, j) ==
    Len(prog.Verbs) + Len(prog.RawFlags)
        + WidthOfFirst(prog.Flags, Len(prog.Flags)) + j

\* The precedence law, stated from the three cases of the claim.
LawValue(x, ps) ==
    IF x.Name \in DOMAIN ps /\ RenderValue(x.Type, ps[x.Name]).s # ""
    THEN RenderValue(x.Type, ps[x.Name]).s
    ELSE IF x.Name \notin DOMAIN ps /\ x.Raw # ""
    THEN x.Raw
    ELSE RenderValue(x.Type, x.Value).s

\* C1: in a successful result, every non-NoValue flag and every positional
\* argument carries the runtime rendering when the runtime map has a
\* non-empty rendering for its name, its Raw verbatim when the runtime map
\* has no entry and Raw is non-empty, and the rendering of its static Value
\* in every other case (a runtime entry rendering to "" included).
C1_Precedence ==
    caPc = "done" =>
        /\ \A j \in 1..Len(caProgram.Flags) :
              ~caProgram.Flags[j].NoValue =>
                  caArgs[FlagTokenPos(caProgram, j) + 1]
                      = LawValue(caProgram.Flags[j], caPs)
        /\ \A j \in 1..Len(caProgram.Args) :
              caArgs[ArgPos(caProgram, j)] = LawValue(caProgram.Args[j], caPs)

\* A successful run in which a runtime entry rendering to "" made the static
\* Value win over a non-empty Raw, and another where the runtime value won.
C1_Witness ==
    /\ caPc = "done"
    /\ \E j \in 1..Len(caProgram.Flags) :
          LET x == caProgram.Flags[j]
          IN  /\ ~x.NoValue /\ x.Name \in DOMAIN caPs /\ x.Raw # ""
              /\ RenderValue(x.Type, caPs[x.Name]).s = ""
              /\ caArgs[FlagTokenPos(caProgram, j) + 1] = "x"
    /\ \E j \in 1..Len(caProgram.Args) :
          LET x == caProgram.Args[j]
          IN  /\ x.Name \in DOMAIN caPs /\ x.Raw # ""
              /\ caArgs[ArgPos(caProgram, j)] = "7"

RECURSIVE FlagTokens(_, _)
FlagTokens(flags, ps) ==
    IF Len(flags) = 0 THEN <<>>
    ELSE (IF flags[1].NoValue
          THEN <<IF flags[1].Flag # "" THEN flags[1].Flag ELSE "--" \o flags[1].Name>>
          ELSE <<IF flags[1].Flag # "" THEN flags[1].Flag ELSE "--" \o flags[1].Name,
                 LawValue(flags[1], ps)>>)
         \o FlagTokens(Tail(flags), ps)

ExpectedVector(prog, ps) ==
    prog.Verbs \o prog.RawFlags \o FlagTokens(prog.Flags, ps)
        \o [j \in 1..Len(prog.Args) |-> LawValue(prog.Args[j], ps)]

IsPrefix(s, t) == Len(s) <= Len(t) /\ s = SubSeq(t, 1, Len(s))

\* C2: a successful result is exactly Verbs, then RawFlags, then for each
\* flag in order its token followed by its value, then one token per arg in
\* order; while the vector is being built it is a prefix of that vector, so
\* no token of a later group ever precedes one of an earlier group.
C2_VectorOrder ==
    /\ caPc = "done" => caArgs = ExpectedVector(caProgram, caPs)
    /\ caPc \in {"flags", "args"} =>
          IsPrefix(caArgs, ExpectedVector(caProgram, caPs))

\* A successful run with tokens of all four groups.
C2_Witness ==
    /\ caPc = "done"
    /\ Len(caProgram.Verbs) = 2 /\ Len(caProgram.RawFlags) = 2
    /\ Len(caProgram.Flags) = 1 /\ Len(caProgram.Args) = 1
    /\ ~caProgram.Flags[1].NoValue
    /\ Len(caArgs) = 7

\* C3: a NoValue flag contributes its flag token and nothing else, whatever
\* the runtime map, its Raw and its static Value are, and the flags loop
\* never fails on it.
C3_NoValueOneToken ==
    /\ caPc \in {"flags", "failed"} /\ caErr.kind # "arg" =>
          /\ caPc = "flags" =>
                Len(caArgs) = FlagTokenPos(caProgram, caIdx) - 1
          /\ \A j \in 1..(caIdx - 1) :
                caProgram.Flags[j].NoValue =>
                    /\ caPc = "flags" =>
                          caArgs[FlagTokenPos(caProgram, j)]
                              = FlagToken(caProgram.Flags[j])
                    /\ FlagTokenPos(caProgram, j + 1)
                          = FlagTokenPos(caProgram, j) + 1
    /\ caPc = "failed" /\ caErr.kind = "flag" =>
          ~caProgram.Flags[caIdx].NoValue
    /\ caPc = "done" =>
          Len(caArgs) = ArgPos(caProgram, Len(caProgram.Args))

\* A successful run over a NoValue flag whose name the runtime map holds,
\* whose Raw is non-empty and whose static Value its Type cannot render.
C3_Witness ==
    /\ caPc = "done"
    /\ \E j \in 1..Len(caProgram.Flags) :
          LET x == caProgram.Flags[j]
          IN  /\ x.NoValue /\ x.Name \in DOMAIN caPs /\ x.Raw # ""
              /\ RenderValue(x.Type, x.Value).err
              /\ caArgs[FlagTokenPos(caProgram, j)] = "--a"
              /\ Len(caArgs) = Len(caProgram.Verbs) + Len(caProgram.RawFlags)
                                  + (Len(caProgram.Flags) - 1) * 2 + 1
                                  + Len(caProgram.Args)

(***************************************************************************)
(* The specifications.                                                     *)
(***************************************************************************)
InitArgs == CaInit /\ ClIdle /\ LdIdle /\ RnIdle

SpecArgs == InitArgs /\ [][CaNext]_vars

InitClone == ClInit /\ CaIdle /\ LdIdle /\ RnIdle

SpecClone == InitClone /\ [][ClNext]_vars

SpecAlias == InitClone /\ [][AliasNext]_vars

(***************************************************************************)
(* Properties of Clone.                                                    *)
(***************************************************************************)
SetterOps == {"SetFlagValue", "SetFlagRaw", "SetArgValue", "SetArgRaw", "AddRawFlag"}
WriteOps == {"WriteSlice", "WriteValueElem", "WriteMap", "WriteParamSlot"}

Other(t) == IF t = "orig" THEN "clone" ELSE "orig"

\* C4: Clone returns a program with the contents of the original and leaves
\* the original as it was; and once cloned, a SetFlagValue, SetFlagRaw,
\* SetArgValue, SetArgRaw or AddRawFlag call on one of the two leaves every
\* field of the other unchanged.
C4_CloneLaw ==
    /\ lastOp.op = "Clone" =>
          /\ Abs(heap, progs.clone) = Abs(heap, progs.orig)
          /\ Abs(heap, progs.orig) = preAbs.orig
    /\ cloned /\ lastOp.op \in SetterOps =>
          Abs(heap, progs[Other(lastOp.target)]) = preAbs[Other(lastOp.target)]

\* Setters on the clone have changed its flags, its args and its raw flags,
\* the original has been appended to as well, and the last call changed the
\* clone.
C4_Witness ==
    /\ cloned
    /\ lastOp.op \in SetterOps /\ lastOp.target = "clone"
    /\ Abs(heap, progs.clone) # preAbs.clone
    /\ Abs(heap, progs.clone).Flags # Abs(heap, progs.orig).Flags
    /\ Len(Abs(heap, progs.orig).Flags) = 2

\* C10: once cloned, an in-place element write through one of the two
\* programs (an element of Verbs or RawFlags, an element of a list-typed
\* Value, an entry of Env or ExpectedFiles, a slot of Flags or Args) is not
\* observable through the other.
C10_NoSharedStorage ==
    cloned /\ lastOp.op \in WriteOps =>
        Abs(heap, progs[Other(lastOp.target)]) = preAbs[Other(lastOp.target)]

InitLoad == LdInit /\ CaIdle /\ ClIdle /\ RnIdle

SpecLoad == InitLoad /\ [][LdNext]_vars

(***************************************************************************)
(* Properties of LoadRepositories.                                         *)
(***************************************************************************)
IsYamlName(name) == HasSuffix(name, DotYaml) \/ HasSuffix(name, DotYml)

\* The definition files under dir, stated without any traversal order:
\* the non-hidden YAML-family files of dir and of its non-hidden
\* subdirectories.
RECURSIVE VisibleFiles(_, _)
VisibleFiles(fs, dir) ==
    {[dir |-> dir, entry |-> e] :
        e \in {x \in fs[dir] : ~x.isDir /\ ~HasPrefix(x.name, <<".">>)
                                /\ IsYamlName(x.name)}}
    \cup UNION {VisibleFiles(fs, d.child) :
                  d \in {x \in fs[dir] : x.isDir /\ ~HasPrefix(x.name, <<".">>)}}

AllRootsExist == \A i \in 1..Len(repositories) : repositories[i] \in DOMAIN fsys

\* One occurrence per root position and definition file under that root.
Occurrences ==
    UNION {{<<i, v>> : v \in VisibleFiles(fsys, repositories[i])} :
             i \in {k \in 1..Len(repositories) : repositories[k] \in DOMAIN fsys}}

NoFault == AllRootsExist /\ \A o \in Occurrences : o[2].entry.fault = "none"

\* C5: once LoadRepositories has returned: if two programs that the walks
\* handed to the merge carry the same name, it failed with the collision
\* error; when every root exists and every definition file decodes, it
\* fails with the collision error exactly when two definition files (in
\* one root, in two roots, or in a root listed twice) carry one name,
\* whatever the traversal order; a failure returns no registry; a success
\* returns a registry that maps each decoded program's Name to it and holds
\* exactly one entry per decoded file.
C5_RegistryUniqueness ==
    ldPc = "done" =>
        /\ (\E i, j \in 1..Len(decoded) :
              i # j /\ decoded[i].Name = decoded[j].Name) => ldErr = "exists"
        /\ NoFault =>
              (ldErr = "exists" <=>
                  \E o1, o2 \in Occurrences :
                      o1 # o2 /\ o1[2].entry.prog = o2[2].entry.prog)
        /\ ldErr # "" => ldReturned = NoRegistry
        /\ ldErr = "" =>
              /\ ldReturned # NoRegistry
              /\ \A i \in 1..Len(decoded) : decoded[i] \in ldReturned
              /\ \A q1, q2 \in ldReturned : q1.Name = q2.Name => q1 = q2
              /\ Cardinality(ldReturned) = Len(decoded)
              /\ Cardinality(ldReturned) = Cardinality(Occurrences)

\* The same root listed twice: the second pass collides with the first.
C5_Witness ==
    /\ ldPc = "done"
    /\ ldErr = "exists"
    /\ Len(repositories) = 2
    /\ repositories[1] = repositories[2]
    /\ Len(decoded) = 2
    /\ decoded[1].Name = decoded[2].Name
    /\ decoded[1].root # decoded[2].root

InitRender == RnInit /\ CaIdle /\ ClIdle /\ LdIdle

SpecRender == InitRender /\ [][RnNext]_vars

(***************************************************************************)
(* Properties of the render command.                                       *)
(***************************************************************************)
\* C6: every change event the callback has handled has a RenderFile call
\* for its path with the output path computed for it.
C6_EventsAreRendered ==
    \A e \in 1..Len(rnLog) :
        \E r \in 1..Len(rnRenders) :
            /\ rnRenders[r].kind = "file"
            /\ rnRenders[r].src = rnLog[e].path
            /\ rnRenders[r].out = rnLog[e].outputPath

\* The positions of the configured roots that are a string prefix of path.
MatchingRoots(path) ==
    {i \in 1..Len(rnIn.files.list) : HasPrefix(path, rnIn.files.list[i])}

FirstMatch(path) ==
    CHOOSE i \in MatchingRoots(path) : \A j \in MatchingRoots(path) : i <= j

\* The part of the claim both statements share: the base is the first root
\* in list order that is a prefix of the path, and the output path is the
\* output directory joined with the rest of the path.
MappedFromFirstRoot(e) ==
    /\ e.basePath = rnIn.files.list[FirstMatch(e.path)]
    /\ \E rest \in {SubSeq(e.path, k, Len(e.path)) : k \in 1..(Len(e.path) + 1)} :
          /\ e.path = e.basePath \o rest
          /\ e.outputPath = Join(rnIn.outDir.s, rest)

\* C7 as stated: with no configured root a prefix of the path, the base is
\* the path itself and the output path is outputDir.
C7_PathMappingAsStated ==
    \A n \in 1..Len(rnLog) :
        IF MatchingRoots(rnLog[n].path) # {}
        THEN MappedFromFirstRoot(rnLog[n])
        ELSE /\ rnLog[n].basePath = rnLog[n].path
             /\ rnLog[n].outputPath = rnIn.outDir.s

\* C7, amended: the base is the first root in list order (not the longest
\* match) that is a string prefix of the path, and the output path is
\* outputDir joined with the path stripped of that prefix; with no root a
\* prefix of the path, the base is the path itself and the output path is
\* outputDir in its cleaned form (filepath.Join cleans its result).
C7_PathMapping ==
    \A n \in 1..Len(rnLog) :
        IF MatchingRoots(rnLog[n].path) # {}
        THEN MappedFromFirstRoot(rnLog[n])
        ELSE /\ rnLog[n].basePath = rnLog[n].path
             /\ rnLog[n].outputPath = Clean(rnIn.outDir.s)

\* Two events: one under two nested roots listed shortest first, mapped from
\* the shorter root; one under no root, with an output directory that ends
\* in a separator.
C7_Witness ==
    /\ Len(rnLog) = 2
    /\ rnIn.files.list = << <<"a">>, <<"a", "/", "b">> >>
    /\ rnIn.outDir.s = <<"o", "/">>
    /\ rnLog[1].path = <<"a", "/", "b", "/", "c">>
    /\ rnLog[1].outputPath = <<"o", "/", "b", "/", "c">>
    /\ rnLog[2].path = <<"d">>
    /\ rnLog[2].outputPath = <<"o">>

\* C8: a delimiters option with other than two values ends the command with
\* the validation error before any file is touched (no repository
\* definition file read, no source rendered, no watcher started, no output
\* written), in watch and in batch mode; two values pass the validation.
C8_DelimitersCheckedFirst ==
    /\ rnFatal = "delimiters parameter must have 2 values" =>
          /\ rnTouched = {}
          /\ rnIn.delims.len # 2
    /\ ~rnIn.delims.isNil /\ rnIn.delims.len # 2 =>
          /\ rnTouched \cap {"stat", "source", "watcher", "output"} = {}
          /\ rnExit # "ok"

\* C9: when the watcher loop returns because of cancellation the session
\* ends cleanly, and when it returns any other error it ends fatally.
C9_WatchShutdown ==
    rnPc = "exit" =>
        /\ rnWatchErr = "canceled" => rnExit = "ok"
        /\ rnWatchErr = "other" => rnExit = "fatal"
=============================================================================
